---- MODULE Spec2Model ----
(***************************************************************************)
(* Model of env.py: Entry (a str subclass with conversions) and            *)
(* Environment (attribute-style and mapping-style access to a name->value  *)
(* mapping).                                                               *)
(*                                                                         *)
(* Strings are sequences of one-character strings, so that lower(),        *)
(* startswith(), isdigit() and int() are computed character by character.  *)
(* A Python dict is a sequence of [key, val] records with distinct keys,   *)
(* in insertion order.  Objects that the code shares by reference          *)
(* (os.environ, the injected mapping, the dict built by __init__) live in  *)
(* `heap`, and _envars / _original_env hold references into it.            *)
(* os.environ is modelled with POSIX key handling (keys kept as given).    *)
(***************************************************************************)
EXTENDS Naturals, Sequences, FiniteSets

VARIABLES
    blankify,       \* Environment._blankify
    noneify,        \* Environment._noneify
    sensitive,      \* Environment._sensitive
    readonly,       \* Environment._readonly
    original_env,   \* Environment._original_env : a reference into heap
    envars,         \* Environment._envars       : a reference into heap
    heap,           \* reference -> mapping
    result,         \* what the last operation was and what it returned/raised
    nops,           \* number of operations performed so far
    entry,          \* an Entry whose conversion is requested (SpecBool)
    conv            \* the outcome of Entry.as_bool on `entry`

vars == <<blankify, noneify, sensitive, readonly, original_env, envars,
          heap, result, nops, entry, conv>>

\* ---------------------------------------------------------------- bounds
MaxOps == 2
MaxLen == 2

\* --------------------------------------------------------------- strings
Uppers == <<"A","B","C","D","E","F","G","H","I","J","K","L","M",
            "N","O","P","Q","R","S","T","U","V","W","X","Y","Z">>
Lowers == <<"a","b","c","d","e","f","g","h","i","j","k","l","m",
            "n","o","p","q","r","s","t","u","v","w","x","y","z">>

LowerChar(c) ==
    IF \E i \in 1..Len(Uppers) : Uppers[i] = c
    THEN Lowers[CHOOSE i \in 1..Len(Uppers) : Uppers[i] = c]
    ELSE c

UpperChar(c) ==
    IF \E i \in 1..Len(Lowers) : Lowers[i] = c
    THEN Uppers[CHOOSE i \in 1..Len(Lowers) : Lowers[i] = c]
    ELSE c

\* str.lower()
lower(s) == [i \in 1..Len(s) |-> LowerChar(s[i])]

\* str.startswith(p)
startswith(s, p) == Len(p) <= Len(s) /\ SubSeq(s, 1, Len(p)) = p

\* ------------------------------------------------------- values (str / Entry)
\* A plain str.
Str(s) == [cls |-> "str", name |-> <<>>, s |-> s]

\* Entry(name, value): a str subclass whose content is that of value.
Entry(name, value) == [cls |-> "Entry", name |-> name, s |-> value.s]

\* ------------------------------------------------------------- dict model
Item(k, v) == [key |-> k, val |-> v]

Keys(d) == {d[i].key : i \in 1..Len(d)}

Has(d, k) == k \in Keys(d)

Get(d, k) == d[CHOOSE i \in 1..Len(d) : d[i].key = k].val

Put(d, k, v) ==
    IF Has(d, k)
    THEN [i \in 1..Len(d) |-> IF d[i].key = k THEN Item(k, v) ELSE d[i]]
    ELSE Append(d, Item(k, v))

IsNot(k, e) == e.key # k

Del(d, k) == SelectSeq(d, LAMBDA e : IsNot(k, e))

\* ------------------------------------------------------------------ heap
OsEnviron == "os.environ"   \* the live process environment
Variables == "variables"    \* a mapping injected by the caller
OwnDict   == "dict"         \* the dict __init__ builds when not sensitive

Refs == {OsEnviron, Variables, OwnDict}

\* mapping[k] = v on the object behind reference r.  os.environ keeps the
\* text of the value only: reading it back gives a plain str.
HeapPut(h, r, k, v) ==
    [h EXCEPT ![r] = Put(@, k, IF r = OsEnviron THEN Str(v.s) ELSE v)]

HeapDel(h, r, k) == [h EXCEPT ![r] = Del(@, k)]

\* ------------------------------------------------------ names and values
nAb   == <<"A","b">>
nab   == <<"a","b">>
nData == <<"d","a","t","a">>
nEnvironment == <<"E","n","v","i","r","o","n","m","e","n","t">>

Names == {nAb, nab, nData, nEnvironment}

vx == <<"x">>
vy == <<"y">>
Values == {vx, vy}

Prefixes == {<<>>, <<"A">>, nab, <<"d">>}

ReadOnlyMsg == <<"Environment is read-only.">>

\* Source mappings an Environment is built from (keys of either case, with
\* and without a pair of keys that differ only in case).
InitialMappings ==
    { <<>>,
      <<Item(nAb, Str(vx))>>,
      <<Item(nAb, Str(vx)), Item(nab, Str(vy))>>,
      <<Item(nab, Str(vy)), Item(nData, Str(vx))>> }

\* ------------------------------------------------------------- Entry.as_bool
\* U+00B2 SUPERSCRIPT TWO: str.isdigit() is true of it, int() rejects it.
SuperscriptTwo == "sup2"

DecimalChars == {"0","1","2","3","4","5","6","7","8","9"}

\* characters str.isdigit() accepts
DigitChars == DecimalChars \cup {SuperscriptTwo}

isdigit(s) == Len(s) > 0 /\ \A i \in 1..Len(s) : s[i] \in DigitChars

DecimalValue(c) ==
    CASE c = "0" -> 0 [] c = "1" -> 1 [] c = "2" -> 2 [] c = "3" -> 3
      [] c = "4" -> 4 [] c = "5" -> 5 [] c = "6" -> 6 [] c = "7" -> 7
      [] c = "8" -> 8 [] c = "9" -> 9

\* int(s) raises ValueError unless every character is a decimal digit
\* (s is only passed to int() when isdigit(s) holds).
IntRaises(s) == \E i \in 1..Len(s) : s[i] \notin DecimalChars

RECURSIVE IntOf(_)
IntOf(s) ==
    IF Len(s) = 0 THEN 0
    ELSE 10 * IntOf(SubSeq(s, 1, Len(s) - 1)) + DecimalValue(s[Len(s)])

wYes   == <<"y","e","s">>
wTrue  == <<"t","r","u","e">>
wNo    == <<"n","o">>
wFalse == <<"f","a","l","s","e">>
wMaybe == <<"m","a","y","b","e">>

\* Entry.as_bool: "True", "False", "None", or the exception raised.
as_bool(e) ==
    LET low == lower(e.s) IN
    IF isdigit(low)
    THEN (IF IntRaises(low) THEN "ValueError"
          ELSE IF IntOf(low) # 0 THEN "True" ELSE "False")
    ELSE IF low \in {wYes, wTrue} THEN "True"
    ELSE IF low \in {wNo, wFalse} THEN "False"
    ELSE IF e.s = <<>> THEN "False"
    ELSE "None"

\* --------------------------------------------------------- Environment
\* (variant: __init__ keeps the caller's mapping also when not sensitive)
InitEnvars_alias(sens, environ) == environ

\* Environment.__init__: which object _envars refers to.
InitEnvars(sens, environ) == IF sens THEN environ ELSE OwnDict

\* { name.lower(): value for name, value in environ.items() }
RECURSIVE LoweredItems(_, _, _)
LoweredItems(d, i, acc) ==
    IF i > Len(d) THEN acc
    ELSE LoweredItems(d, i + 1, Put(acc, lower(d[i].key), d[i].val))

LoweredCopy(d) == LoweredItems(d, 1, <<>>)

\* (variant: `self._original_env == os.environ`, equality for identity)
IsOsEnviron_eq(ref) == heap[ref] = heap[OsEnviron]

\* `self._original_env is os.environ`
IsOsEnviron(ref) == ref = OsEnviron

\* Environment.__contains__
contains(h, name) == Has(h[envars], name)

\* dict.setdefault / os.environ.setdefault on the object behind r
SetDefault(h, r, k, default) ==
    LET h1 == IF Has(h[r], k) THEN h ELSE HeapPut(h, r, k, default)
    IN  [heap |-> h1, ret |-> Get(h1[r], k)]

NoRet == Str(<<>>)

Outcome(h, kind, ret, arg) == [heap |-> h, kind |-> kind, ret |-> ret, arg |-> arg]

\* (variant: the blank Entry is returned but not stored)
Blank_nostore(h, n) == Outcome(h, "Entry", Entry(<<>>, Str(<<>>)), <<>>)

\* the missing-key branch of __getattr__ with blankify set
Blank(h, n) ==
    LET sd == SetDefault(h, envars, n, Entry(<<>>, Str(<<>>)))
    IN  Outcome(sd.heap, sd.ret.cls, sd.ret, <<>>)

\* Environment.__getattr__(name) on heap h: the heap afterwards and what is
\* returned (kind Entry / str / None / class) or raised (kind AttributeError).
getattr(h, name) ==
    IF name = nEnvironment THEN Outcome(h, "class", NoRet, <<>>)
    ELSE
      LET n == IF ~sensitive THEN lower(name) ELSE name IN
      IF Has(h[envars], n)
      THEN Outcome(h, "Entry", Entry(n, Get(h[envars], n)), <<>>)
      ELSE IF blankify THEN Blank(h, n)
      ELSE IF noneify THEN Outcome(h, "None", NoRet, <<>>)
      ELSE Outcome(h, "AttributeError", NoRet, n)

\* Environment.__getitem__ : the stored value, KeyError when missing
getitem(h, key) ==
    IF Has(h[envars], key)
    THEN Outcome(h, Get(h[envars], key).cls, Get(h[envars], key), <<>>)
    ELSE Outcome(h, "KeyError", NoRet, key)

\* Environment.prefix: the dict comprehension, in iteration order
RECURSIVE PrefixItems(_, _, _, _, _)
PrefixItems(d, i, p, lowercase, acc) ==
    IF i > Len(d) THEN acc
    ELSE IF startswith(d[i].key, p)
         THEN PrefixItems(d, i + 1, p, lowercase,
                          Put(acc, IF lowercase THEN lower(d[i].key) ELSE d[i].key,
                              Str(d[i].val.s)))
         ELSE PrefixItems(d, i + 1, p, lowercase, acc)

\* (variant: the lowercase argument is ignored)
prefix_nolower(h, p, lowercase) == PrefixItems(h[envars], 1, p, FALSE, <<>>)

prefix(h, p, lowercase) == PrefixItems(h[envars], 1, p, lowercase, <<>>)

Result(op, name, value, flag, kind, ret, arg, dict) ==
    [op |-> op, name |-> name, value |-> value, flag |-> flag,
     kind |-> kind, ret |-> ret, arg |-> arg, dict |-> dict]

Flags == <<blankify, noneify, sensitive, readonly, original_env, envars>>
Conv  == <<entry, conv>>

NoEntry == Entry(<<>>, Str(<<>>))

Init ==
    /\ blankify \in BOOLEAN
    /\ noneify \in BOOLEAN
    /\ sensitive \in BOOLEAN
    /\ readonly \in BOOLEAN
    /\ original_env \in {OsEnviron, Variables}
    /\ envars = InitEnvars(sensitive, original_env)
    /\ \E src \in InitialMappings, live \in InitialMappings :
          /\ original_env = OsEnviron => live = src
          /\ original_env = Variables => live \in {src, <<>>}
          /\ heap = [r \in Refs |->
                       CASE r = OsEnviron -> live
                         [] r = Variables -> IF original_env = Variables THEN src ELSE <<>>
                         [] r = OwnDict -> IF sensitive THEN <<>> ELSE LoweredCopy(src)]
    /\ result = Result("init", <<>>, <<>>, FALSE, "ok", NoRet, <<>>, <<>>)
    /\ nops = 0
    /\ entry = NoEntry
    /\ conv = "unset"

\* env.<name>
Getattr(name) ==
    /\ nops < MaxOps
    /\ LET g == getattr(heap, name) IN
         /\ heap' = g.heap
         /\ result' = Result("getattr", name, <<>>, FALSE, g.kind, g.ret, g.arg, <<>>)
    /\ nops' = nops + 1
    /\ UNCHANGED <<Flags, Conv>>

\* env.<name> = value
Setattr(name, value) ==
    /\ nops < MaxOps
    /\ IF readonly
       THEN /\ heap' = heap
            /\ result' = Result("setattr", name, value, FALSE,
                                "AttributeError", NoRet, ReadOnlyMsg, <<>>)
       ELSE LET h1 == HeapPut(heap, envars, name, Str(value))
                h2 == IF IsOsEnviron(original_env)
                      THEN HeapPut(h1, OsEnviron, name, Str(value))
                      ELSE h1
            IN  /\ heap' = h2
                /\ result' = Result("setattr", name, value, FALSE, "ok", NoRet, <<>>, <<>>)
    /\ nops' = nops + 1
    /\ UNCHANGED <<Flags, Conv>>

\* del self._envars[name], shared by __delattr__ and __delitem__
DelEnvars(op, name) ==
    /\ IF Has(heap[envars], name)
       THEN /\ heap' = HeapDel(heap, envars, name)
            /\ result' = Result(op, name, <<>>, FALSE, "ok", NoRet, <<>>, <<>>)
       ELSE /\ heap' = heap
            /\ result' = Result(op, name, <<>>, FALSE, "KeyError", NoRet, name, <<>>)

\* del env.<name>
Delattr(name) ==
    /\ nops < MaxOps
    /\ DelEnvars("delattr", name)
    /\ nops' = nops + 1
    /\ UNCHANGED <<Flags, Conv>>

\* del env[key]
Delitem(key) ==
    /\ nops < MaxOps
    /\ DelEnvars("delitem", key)
    /\ nops' = nops + 1
    /\ UNCHANGED <<Flags, Conv>>

TypeName(kind) == IF kind = "None" THEN "NoneType" ELSE kind

\* env[key] = item : `self.data[key] = item`.  self.data goes through
\* __getattr__("data"); what it returns supports no item assignment.
Setitem(key, item) ==
    /\ nops < MaxOps
    /\ LET g == getattr(heap, nData) IN
         /\ heap' = g.heap
         /\ result' = IF g.kind = "AttributeError"
                      THEN Result("setitem", key, item, FALSE, g.kind, NoRet, g.arg, <<>>)
                      ELSE Result("setitem", key, item, FALSE, "TypeError", NoRet,
                                  <<TypeName(g.kind)>>, <<>>)
    /\ nops' = nops + 1
    /\ UNCHANGED <<Flags, Conv>>

\* env.prefix(p, lowercase)
Prefix(p, lowercase) ==
    /\ nops < MaxOps
    /\ heap' = heap
    /\ result' = Result("prefix", p, <<>>, lowercase, "dict", NoRet, <<>>,
                        prefix(heap, p, lowercase))
    /\ nops' = nops + 1
    /\ UNCHANGED <<Flags, Conv>>

\* The caller changes the mapping it injected, behind the Environment's back.
SourceSet(key, value) ==
    /\ nops < MaxOps
    /\ original_env = Variables
    /\ heap' = HeapPut(heap, Variables, key, Str(value))
    /\ result' = Result("source", key, value, FALSE, "ok", NoRet, <<>>, <<>>)
    /\ nops' = nops + 1
    /\ UNCHANGED <<Flags, Conv>>

Next ==
    \/ \E n \in Names : Getattr(n)
    \/ \E n \in Names, v \in Values : Setattr(n, v)
    \/ \E n \in Names : Delattr(n)
    \/ \E n \in Names : Delitem(n)
    \/ \E n \in Names, v \in Values : Setitem(n, v)
    \/ \E p \in Prefixes, lc \in BOOLEAN : Prefix(p, lc)
    \/ \E n \in {nAb, nab}, v \in Values : SourceSet(n, v)

Spec == Init /\ [][Next]_vars

\* ------------------------------------------------ Entry.as_bool, on its own
BoolAlphabet == {"0", "1", "2", SuperscriptTwo, "a", "-"}

Strings(n) == UNION { [1..k -> BoolAlphabet] : k \in 0..n }

\* every spelling of w in upper and lower case letters
CaseVariants(w) ==
    { s \in [1..Len(w) -> {w[i] : i \in 1..Len(w)} \cup {UpperChar(w[i]) : i \in 1..Len(w)}] :
        \A i \in 1..Len(w) : s[i] \in {w[i], UpperChar(w[i])} }

Contents ==
    Strings(MaxLen) \cup CaseVariants(wYes) \cup CaseVariants(wTrue)
        \cup CaseVariants(wNo) \cup CaseVariants(wFalse) \cup CaseVariants(wMaybe)

InitBool ==
    /\ blankify = FALSE
    /\ noneify = TRUE
    /\ sensitive = TRUE
    /\ readonly = TRUE
    /\ original_env = OsEnviron
    /\ envars = InitEnvars(sensitive, original_env)
    /\ heap = [r \in Refs |-> <<>>]
    /\ result = Result("init", <<>>, <<>>, FALSE, "ok", NoRet, <<>>, <<>>)
    /\ nops = 0
    /\ \E s \in Contents : entry = Entry(<<"X">>, Str(s))
    /\ conv = "unset"

\* entry.as_bool
AsBool ==
    /\ conv = "unset"
    /\ conv' = as_bool(entry)
    /\ UNCHANGED <<Flags, heap, result, nops, entry>>

NextBool == AsBool

SpecBool == InitBool /\ [][NextBool]_vars

\* ================================================================ claims
\* the key a name is looked up under
Fold(n) == IF sensitive THEN n ELSE lower(n)

\* this step is operation op
Did(op) == nops' = nops + 1 /\ result'.op = op

\* C1: an attribute-style lookup of a name absent from the backing mapping
\* (after folding when not sensitive) returns an empty-string Entry when
\* blankify is set, the no-value result when only noneify is set, and fails
\* with an error carrying the requested name when neither is set.
C1_MissingLookupByFlags ==
    [][ \A n \in Names :
          (Did("getattr") /\ result'.name = n /\ ~Has(heap[envars], Fold(n)))
          => /\ blankify => (result'.kind = "Entry" /\ result'.ret.s = <<>>)
             /\ (~blankify /\ noneify) => result'.kind = "None"
             /\ (~blankify /\ ~noneify)
                   => (result'.kind = "AttributeError" /\ result'.arg = n) ]_vars

MutationOps == {"setattr", "delattr", "setitem", "delitem"}

\* C2: on a read-only Environment every mutation attempt (attribute set,
\* attribute delete, set-item, delete-item) fails with the read-only error
\* and leaves the backing mapping as it was.
C2_ReadonlyRejectsMutation ==
    [][ (readonly /\ nops' = nops + 1 /\ result'.op \in MutationOps)
        => /\ result'.kind = "AttributeError"
           /\ result'.arg = ReadOnlyMsg
           /\ heap'[envars] = heap[envars] ]_vars

\* C3: on a non-read-only Environment, a set of a name to v followed at once
\* by a lookup of the same name returns an Entry whose value is v.
C3_SetThenGet ==
    [][ (result.op = "setattr" /\ result.kind = "ok"
         /\ Did("getattr") /\ result'.name = result.name)
        => (result'.kind = "Entry" /\ result'.ret.s = result.value) ]_vars

\* C4: when sensitive is false every key of the backing mapping is lowercase,
\* in every reachable state.
C4_InsensitiveKeysLowercase ==
    ~sensitive => \A k \in Keys(heap[envars]) : lower(k) = k

\* C5: a successful attribute-style set(name, v) writes name->v into the live
\* process environment if the source is the live environment object itself,
\* and leaves the live environment unchanged if the source is an injected
\* mapping, also one equal in content to the live environment.
C5_WriteThroughIffLive ==
    [][ (Did("setattr") /\ result'.kind = "ok")
        => IF original_env = OsEnviron
           THEN /\ Has(heap'[OsEnviron], result'.name)
                /\ Get(heap'[OsEnviron], result'.name) = Str(result'.value)
                /\ \A k \in Keys(heap[OsEnviron]) \ {result'.name} :
                      /\ Has(heap'[OsEnviron], k)
                      /\ Get(heap'[OsEnviron], k) = Get(heap[OsEnviron], k)
           ELSE heap'[OsEnviron] = heap[OsEnviron] ]_vars

\* C5 witness: a set succeeded on a case-insensitive Environment built from
\* the live environment, and the live environment holds the written pair.
C5_Witness ==
    /\ result.op = "setattr" /\ result.kind = "ok"
    /\ original_env = OsEnviron /\ ~sensitive
    /\ Has(heap[OsEnviron], result.name)
    /\ Get(heap[OsEnviron], result.name) = Str(result.value)

\* C6: set-item(key, v) on a non-read-only Environment completes without
\* error; afterwards get-item(key) returns v, contains(key) is true, and no
\* other key of the backing mapping is added, removed or changed.
C6_SetItemStores ==
    [][ (~readonly /\ Did("setitem"))
        => /\ result'.kind = "ok"
           /\ contains(heap', result'.name)
           /\ getitem(heap', result'.name).ret.s = result'.value
           /\ Keys(heap'[envars]) = Keys(heap[envars]) \cup {result'.name}
           /\ \A k \in Keys(heap[envars]) \ {result'.name} :
                 Get(heap'[envars], k) = Get(heap[envars], k) ]_vars

\* the last lookup returned the blank that __getattr__ makes for a missing name
BlankReturned ==
    /\ result.op = "getattr"
    /\ \/ result.kind = "str"
       \/ result.kind = "Entry" /\ result.ret.name = <<>>

\* first lookup of a missing name n under blankify: exactly one key, Fold(n),
\* is added, and it holds the empty string
BlankStored(n) ==
    (blankify /\ Did("getattr") /\ result'.name = n /\ ~Has(heap[envars], Fold(n)))
    => /\ Len(heap'[envars]) = Len(heap[envars]) + 1
       /\ SubSeq(heap'[envars], 1, Len(heap[envars])) = heap[envars]
       /\ heap'[envars][Len(heap'[envars])].key = Fold(n)
       /\ heap'[envars][Len(heap'[envars])].val.s = <<>>
       /\ \A r \in Refs \ {envars} : heap'[r] = heap[r]

\* a lookup of n right after the blank was returned for n: the empty string
\* again, and no change of state
BlankStable(n) ==
    (blankify /\ BlankReturned /\ result.name = n /\ Did("getattr") /\ result'.name = n)
    => /\ result'.kind \in {"Entry", "str"}
       /\ result'.ret.s = <<>>
       /\ heap' = heap

\* C7 as stated: with blankify set, the first lookup of any missing name
\* stores an empty-string entry under it (folded when not sensitive), adding
\* exactly that key; a later lookup returns the empty string and changes
\* nothing.
C7_BlankifyAnyName ==
    [][ \A n \in Names : BlankStored(n) /\ BlankStable(n) ]_vars

\* C7 amended: the same, for every name other than "Environment" (which
\* __getattr__ answers with the Environment class before any lookup).
C7_BlankifyIdempotent ==
    [][ \A n \in Names \ {nEnvironment} : BlankStored(n) /\ BlankStable(n) ]_vars

\* C7 witness: under blankify a lookup found the stored blank, i.e. it is the
\* second lookup of a name that was missing.
C7_Witness ==
    /\ blankify
    /\ result.op = "getattr" /\ result.kind = "Entry"
    /\ result.ret.name = Fold(result.name)
    /\ result.ret.s = <<>>
    /\ Has(heap[envars], Fold(result.name))

EnvironmentOps == MutationOps \cup {"getattr", "prefix"}

\* the Environment owns its backing mapping: nothing done through it changes
\* the injected mapping, and a change of the injected mapping changes no
\* lookup
OwnsBacking ==
    /\ (nops' = nops + 1 /\ result'.op \in EnvironmentOps)
          => heap'[Variables] = heap[Variables]
    /\ Did("source")
          => \A n \in Names :
                /\ getattr(heap', n).kind = getattr(heap, n).kind
                /\ getattr(heap', n).ret = getattr(heap, n).ret
                /\ getattr(heap', n).arg = getattr(heap, n).arg

\* C8 as stated: for both values of sensitive the Environment built from an
\* injected mapping owns a copy of it.
C8_CopyForBothSensitive ==
    [][ original_env = Variables => OwnsBacking ]_vars

\* C8 amended: the Environment built with sensitive=false from an injected
\* mapping owns a copy of it.
C8_CopyWhenInsensitive ==
    [][ (original_env = Variables /\ ~sensitive) => OwnsBacking ]_vars

\* C8 witness: on a case-insensitive Environment over an injected mapping a
\* set succeeded and the injected mapping does not hold the written pair.
C8_Witness ==
    /\ original_env = Variables /\ ~sensitive
    /\ result.op = "setattr" /\ result.kind = "ok"
    /\ Has(heap[envars], result.name)
    /\ ~Has(heap[Variables], result.name)

\* the stored keys that start with p
Matching(d, p) == {k \in Keys(d) : startswith(k, p)}

\* the key prefix() files a stored key under
Filed(k, lowercase) == IF lowercase THEN lower(k) ELSE k

\* the last stored key, in iteration order, that starts with p and is filed
\* under key
LastFiled(d, p, lowercase, key) ==
    LET I == {i \in 1..Len(d) :
                startswith(d[i].key, p) /\ Filed(d[i].key, lowercase) = key}
    IN  d[CHOOSE i \in I : \A j \in I : j <= i].key

\* C10 as stated: prefix(p, lowercase) has one entry for every stored key
\* that starts with p and none for any other; its keys are those keys
\* (lowercased when lowercase is set); each entry holds the plain-string
\* value stored under the originating key; the backing mapping is unchanged.
C10_PrefixOneEntryPerKey ==
    [][ Did("prefix")
        => LET d == heap[envars]
               p == result'.name
               lc == result'.flag
               out == result'.dict
           IN  /\ heap' = heap
               /\ Len(out) = Cardinality(Matching(d, p))
               /\ Keys(out) = {Filed(k, lc) : k \in Matching(d, p)}
               /\ \A k \in Matching(d, p) :
                     Get(out, Filed(k, lc)) = Str(Get(d, k).s) ]_vars

\* C10 amended: the keys are as stated; stored keys that start with p and
\* differ only in case share one entry when lowercase is set, and it holds
\* the plain-string value of the last of them in iteration order; with
\* lowercase unset there is one entry per matching key.
C10_PrefixKeysAndValues ==
    [][ Did("prefix")
        => LET d == heap[envars]
               p == result'.name
               lc == result'.flag
               out == result'.dict
           IN  /\ heap' = heap
               /\ Keys(out) = {Filed(k, lc) : k \in Matching(d, p)}
               /\ ~lc => Len(out) = Cardinality(Matching(d, p))
               /\ \A key \in Keys(out) :
                     Get(out, key) = Str(Get(d, LastFiled(d, p, lc, key)).s) ]_vars

\* C10 witness: prefix with lowercase set returned fewer entries than there
\* are matching keys (two of them differ only in case).
C10_Witness ==
    /\ result.op = "prefix" /\ result.flag
    /\ Len(result.dict) >= 1
    /\ Len(result.dict) < Cardinality(Matching(heap[envars], result.name))

\* what the claim says as_bool gives for content s, where it says so
ClaimedBool(s) ==
    LET low == lower(s) IN
    IF low \in {<<"1">>, wYes, wTrue} THEN "True"
    ELSE IF low \in {<<"0">>, wNo, wFalse} \/ s = <<>> THEN "False"
    ELSE IF \A i \in 1..Len(s) : s[i] \in DecimalChars
         THEN (IF IntOf(s) # 0 THEN "True" ELSE "False")
    ELSE "None"

\* C9: boolean conversion never raises: it gives true for "1", "yes", "true"
\* in any case, false for "0", "no", "false" in any case and for the empty
\* string, for digit-only content true exactly when its integer value is not
\* zero, and the indeterminate result for anything else.
C9_AsBoolTotal ==
    conv # "unset"
    => /\ conv \in {"True", "False", "None"}
       /\ (\A i \in 1..Len(entry.s) : entry.s[i] \in DigitChars => entry.s[i] \in DecimalChars)
             => conv = ClaimedBool(entry.s)
====
